---- MODULE Spec2Model ----
(***************************************************************************)
(* bank-support-chain: the 5-stage prompt chain of src/prompt-chain.js.    *)
(*                                                                         *)
(* A text (a JavaScript string) is a sequence of one-character strings.    *)
(* The literal chunks of a prompt's template are single elements of the    *)
(* prompt, so a prompt is the sequence  chunk, embedded text, chunk, ...   *)
(* in the order the template literal writes them.                          *)
(***************************************************************************)
EXTENDS Integers, Sequences, FiniteSets, TLC

\* ------------------------------------------------------------------ bounds
\* Number of distinct customer queries a caller may pass.
NumQueries == 2
\* Longest selectedCategory text given to the category-name extraction.
MaxLen == 4

\* ------------------------------------------------------------------- texts
WhiteSpace == {" ", "\n"}

Colon == ":"

RECURSIVE TrimStart(_)
TrimStart(s) ==
    IF s # <<>> /\ Head(s) \in WhiteSpace THEN TrimStart(Tail(s)) ELSE s

RECURSIVE TrimEnd(_)
TrimEnd(s) ==
    IF s # <<>> /\ s[Len(s)] \in WhiteSpace
    THEN TrimEnd(SubSeq(s, 1, Len(s) - 1))
    ELSE s

\* String.prototype.trim
Trim(s) == TrimEnd(TrimStart(s))

\* String.prototype.split(sep) for a one-character separator: the pieces
\* between the separators, empty pieces kept, always at least one piece.
RECURSIVE SplitFrom(_, _, _)
SplitFrom(s, sep, piece) ==
    IF s = <<>> THEN <<piece>>
    ELSE IF Head(s) = sep THEN <<piece>> \o SplitFrom(Tail(s), sep, <<>>)
    ELSE SplitFrom(Tail(s), sep, Append(piece, Head(s)))

Split(s, sep) == SplitFrom(s, sep, <<>>)

\* s.includes(t)
Contains(s, t) ==
    \E i \in 0..(Len(s) - Len(t)) : SubSeq(s, i + 1, i + Len(t)) = t

\* ------------------------------------------------------------ the 5 stages
NumStages == 5

Stages == 1..NumStages

\* temperature (in tenths) and maxTokens passed with each stage's prompt
StageTemperature == <<3, 3, 3, 3, 5>>

StageMaxTokens == <<150, 250, 150, 200, 300>>

prompt1(q) ==
    <<"Analyze the following customer query and identify the primary intent. [...] Customer Query: ">>
    \o q
    \o <<" Provide a clear, one-sentence summary of the customer's intent. [...]">>

prompt2(int) ==
    <<"Based on the customer's intent, suggest 1-3 possible categories that could apply from this list: [...] Customer Intent: ">>
    \o int
    \o <<" List the categories in order of relevance (most relevant first). [...]">>

prompt3(int, q, cats) ==
    <<"Review the suggested categories and select the single most appropriate category for this customer query. Customer Intent: ">>
    \o int
    \o <<" Original Query: ">>
    \o q
    \o <<" Suggested Categories: ">>
    \o cats
    \o <<" Choose exactly ONE category from the suggestions [...] Selected Category:">>

\* The first piece taken as it is, without the trim.
categoryNameUntrimmed(sel) == Split(sel, Colon)[1]

\* const categoryName = selectedCategory.split(':')[0].trim();
categoryName(sel) == Trim(Split(sel, Colon)[1])

prompt4(name, q) ==
    <<"Identify any additional details from the customer's query that would be relevant for addressing their request in the \"">>
    \o name
    \o <<"\" category. Original Query: ">>
    \o q
    \o <<" Extract the following types of information if present: [...]">>

\* The template of prompt5 without its Additional Details line.
prompt5WithoutDetails(sel, int, det, q) ==
    <<"Generate a professional, helpful response to the customer based on all the information gathered. Category: ">>
    \o sel
    \o <<" Customer Intent: ">>
    \o int
    \o <<" Original Query: ">>
    \o q
    \o <<" Your response should: [...] Response:">>

prompt5(sel, int, det, q) ==
    <<"Generate a professional, helpful response to the customer based on all the information gathered. Category: ">>
    \o sel
    \o <<" Customer Intent: ">>
    \o int
    \o <<" Additional Details: ">>
    \o det
    \o <<" Original Query: ">>
    \o q
    \o <<" Your response should: [...] Response:">>

\* ------------------------------------------------- the Completion Service
\* What the network does with one fetch: the fetch rejects, or resolves to a
\* response with a status and a body; the body parses as JSON or not, and a
\* parsed body has one of these shapes:
\*   "completion"   {choices: [{message: {content: <text>}}]}
\*   "nochoices"    no choices, or an empty list of choices
\*   "nullcontent"  a first choice whose message or content is missing or null
\*   "error"        an error description
NoNet ==
    [fetch |-> "pending", status |-> 0, json |-> FALSE, shape |-> "none",
     content |-> <<>>]

FetchRejected ==
    [fetch |-> "rejected", status |-> 0, json |-> FALSE, shape |-> "none",
     content |-> <<>>]

HttpResponse(status, json, shape, content) ==
    [fetch |-> "resolved", status |-> status, json |-> json, shape |-> shape,
     content |-> content]

CompletionResponse(content) == HttpResponse(200, TRUE, "completion", content)

\* response.ok
ResponseOk(net) == net.status \in 200..299

NoError == [name |-> "none", message |-> "", status |-> 0, origin |-> <<0, 0>>]

\* An error object; origin identifies the call whose code created it.
NewError(name, message, status, id) ==
    [name |-> name, message |-> message, status |-> status, origin |-> id]

NoOutcome == [settled |-> FALSE, ok |-> FALSE, value |-> <<>>, error |-> NoError]

Returns(text) == [settled |-> TRUE, ok |-> TRUE, value |-> text, error |-> NoError]

Throws(err) == [settled |-> TRUE, ok |-> FALSE, value |-> <<>>, error |-> err]

\* A catch block that replaces the error it caught by one of its own.
RethrowWrapped(err) ==
    IF err = NoError THEN err
    ELSE NewError("Error", "Completion failed", 0, <<0, 0>>)

\* catch (error) { console.error(...); throw error; }
Rethrow(err) == err

\* The try block without its if (!response.ok): the body of any response is
\* read as a completion.
TryBodyIgnoringStatus(id, net) ==
    IF net.fetch = "rejected"
    THEN Throws(NewError("TypeError", "fetch failed", 0, id))
    ELSE IF ~net.json
    THEN Throws(NewError("SyntaxError", "Unexpected token", 0, id))
    ELSE IF net.shape # "completion"
    THEN Throws(NewError("TypeError", "Cannot read properties", 0, id))
    ELSE Returns(Trim(net.content))

\* The try block of callTogetherAI, given what the network does with its one
\* fetch; id names the call.
TryBody(id, net) ==
    IF net.fetch = "rejected"
    THEN \* await fetch(...) throws
         Throws(NewError("TypeError", "fetch failed", 0, id))
    ELSE IF ~ResponseOk(net)
    THEN IF ~net.json
         THEN \* await response.json() throws on the error body
              Throws(NewError("SyntaxError", "Unexpected token", 0, id))
         ELSE Throws(NewError("Error", "Together AI API Error", net.status, id))
    ELSE IF ~net.json
    THEN \* await response.json() throws
         Throws(NewError("SyntaxError", "Unexpected token", 0, id))
    ELSE IF net.shape # "completion"
    THEN \* data.choices[0].message.content.trim() reads a property of undefined or null
         Throws(NewError("TypeError", "Cannot read properties", 0, id))
    ELSE Returns(Trim(net.content))

\* callTogetherAI(prompt, temperature, maxTokens)
callTogetherAI(id, net) ==
    LET r == TryBody(id, net)
    IN  IF r.ok THEN r ELSE Throws(Rethrow(r.error))

\* ------------------------------------------------------------- environment
QueryLetters == <<"p", "q", "r", "s">>

Queries == {<<QueryLetters[i]>> : i \in 1..NumQueries}

\* The texts the service may generate for each stage's prompt, as the response
\* body carries them (before callTogetherAI trims them).  Stage 3's cover a
\* category with its rationale, a text without colon, no text before the
\* first colon, and several colons.
StageReplies ==
    << {<<"i">>, <<" ", "j", "\n">>},
       {<<"c", " ">>},
       {<<" ", "a", " ", ":", "b">>, <<"b">>, <<":", "a">>,
        <<"a", ":", "b", ":", "a">>},
       {<<"\n", "d">>},
       {<<"r">>, <<" ", "s", " ", "r", " ">>} >>

FailureNets ==
    {FetchRejected,
     HttpResponse(500, TRUE, "error", <<>>),
     HttpResponse(200, TRUE, "nochoices", <<>>)}

ServiceOutcomes(k) == FailureNets \cup {CompletionResponse(c) : c \in StageReplies[k]}

\* The two executions of runPromptChain.
Execs == {1, 2}

\* -------------------------------------------------------------------- state
VARIABLES
    pc,        \* pc[e]: "idle", "await" (suspended at a stage's await), "returned", "failed"
    query,     \* query[e]: the argument of the execution
    local,     \* local[e]: the consts intent, categories, selectedCategory, details, response
    results,   \* results[e]: the accumulator `results`
    inflight,  \* inflight[e]: the stages whose Completion Service call is in flight
    calls,     \* calls[e]: the calls issued, in order: request, network outcome, outcome
    requests,  \* requests[e]: the HTTP requests (fetch) issued for the execution
    retval,    \* retval[e]: the value the execution returned
    thrown,    \* thrown[e]: the error the execution rejected with
    \* stage 3's output on its way into stage 4's prompt, on its own
    parsePc,     \* "off", "body" (a response body is given), "selected", "built"
    parseRaw,    \* the generated text of stage 3's response body
    parseQuery,  \* the query
    parseSel,    \* selectedCategory
    parseName,   \* categoryName
    parsePrompt, \* prompt4
    \* the batch runner main, which runs its chains as execution 1
    keyEnv,      \* process.env.TOGETHER_API_KEY when the module loads; "" when unset
    mainPc,      \* "off", "entry", "chain" (awaiting runPromptChain), "delay", "done"
    idx,         \* the loop variable i
    mainLog,     \* what main did, in order: "run" (a chain called), how it ended
                 \* ("returned" or "failed"), "delay" (the timer set)
    printed,     \* the closing messages written to the console
    mainResult,  \* main's promise: "pending", "resolved", "rejected"
    \* one call of callTogetherAI on its own
    callPc,      \* "off", "fetching" (the fetch is in flight), "done"
    callNet,     \* what the network does with the fetch
    callOut      \* how the call settled

chainVars == <<pc, query, local, results, inflight, calls, requests, retval, thrown>>

parseVars == <<parsePc, parseRaw, parseQuery, parseSel, parseName, parsePrompt>>

mainVars == <<keyEnv, mainPc, idx, mainLog, printed, mainResult>>

callVars == <<callPc, callNet, callOut>>

vars == <<chainVars, parseVars, mainVars, callVars>>

NoLocals ==
    [intent |-> <<>>, categories |-> <<>>, selectedCategory |-> <<>>,
     details |-> <<>>, response |-> <<>>]

\* const intent = await ...; const categories = await ...; ...
Assign(loc, k, text) ==
    CASE k = 1 -> [loc EXCEPT !.intent = text]
      [] k = 2 -> [loc EXCEPT !.categories = text]
      [] k = 3 -> [loc EXCEPT !.selectedCategory = text]
      [] k = 4 -> [loc EXCEPT !.details = text]
      [] k = 5 -> [loc EXCEPT !.response = text]

\* Stage 4's prompt quoting all of selectedCategory as the category.
PromptOfWholeCategory(k, q, loc) ==
    CASE k = 1 -> prompt1(q)
      [] k = 2 -> prompt2(loc.intent)
      [] k = 3 -> prompt3(loc.intent, q, loc.categories)
      [] k = 4 -> prompt4(loc.selectedCategory, q)
      [] k = 5 -> prompt5(loc.selectedCategory, loc.intent, loc.details, q)

\* The prompt of stage k, from the query and the consts assigned so far.
PromptOf(k, q, loc) ==
    CASE k = 1 -> prompt1(q)
      [] k = 2 -> prompt2(loc.intent)
      [] k = 3 -> prompt3(loc.intent, q, loc.categories)
      [] k = 4 -> prompt4(categoryName(loc.selectedCategory), q)
      [] k = 5 -> prompt5(loc.selectedCategory, loc.intent, loc.details, q)

\* The const intent hoisted out of the function: every execution reads the
\* one written by the first.
CallOfSharedIntent(k, q, loc) ==
    LET shared == IF local[1].intent # <<>>
                  THEN [loc EXCEPT !.intent = local[1].intent]
                  ELSE loc
    IN  [stage |-> k, prompt |-> PromptOf(k, q, shared),
         temperature |-> StageTemperature[k], maxTokens |-> StageMaxTokens[k],
         net |-> NoNet, out |-> NoOutcome]

\* callTogetherAI(prompt_k, temperature, maxTokens) as issued
CallOf(k, q, loc) ==
    [stage |-> k, prompt |-> PromptOf(k, q, loc),
     temperature |-> StageTemperature[k], maxTokens |-> StageMaxTokens[k],
     net |-> NoNet, out |-> NoOutcome]

\* An accumulator kept outside the function, shared by the executions.
NewResultsShared(e) == results[CHOOSE o \in Execs : o # e]

\* const results = [];
NewResults(e) == <<>>

\* results = [x] where results.push(x) was meant
PushOverwrites(res, out) == IF out.ok THEN <<out.value>> ELSE res

\* results.unshift(x) where results.push(x) was meant
PushFront(res, out) == IF out.ok THEN <<out.value>> \o res ELSE res

\* The stage output pushed twice.
PushTwice(res, out) ==
    IF out.ok THEN Append(Append(res, out.value), out.value) ELSE res

\* results.push(<stage output>), reached only when the await did not throw
Push(res, out) == IF out.ok THEN Append(res, out.value) ELSE res

\* A failed call is swallowed and the chain goes on.
NextStageSwallowing(k, out) == IF k < NumStages THEN k + 1 ELSE 0

\* A failed call is issued again.
NextStageRetrying(k, out) ==
    IF ~out.ok THEN k ELSE IF k < NumStages THEN k + 1 ELSE 0

\* The stage invoked after stage k's call settled with out; 0: none.  An await
\* that throws leaves the function, a value goes on to the next statement.
NextStage(k, out) == IF out.ok /\ k < NumStages THEN k + 1 ELSE 0

\* A check that refuses a selectedCategory without the expected colon.
categoryNameThrowsStrict(sel) == Len(Split(sel, Colon)) < 2

\* selectedCategory.split(':')[0].trim() throws a TypeError of its own when
\* the split has no first piece.
categoryNameThrows(sel) == Len(Split(sel, Colon)) = 0

\* A failure caught inside the function, which returns what it has.
pcAfterReturningPartial(k, out) ==
    IF NextStage(k, out) # 0 THEN "await" ELSE "returned"

\* How the execution stands after stage k's call settled with out.
pcAfter(k, out) ==
    IF out.ok /\ k = 3 /\ categoryNameThrows(out.value) THEN "failed"
    ELSE IF NextStage(k, out) # 0 THEN "await"
    ELSE IF out.ok THEN "returned"
    ELSE "failed"

InitChain ==
    /\ pc = [e \in Execs |-> "idle"]
    /\ query = [e \in Execs |-> <<>>]
    /\ local = [e \in Execs |-> NoLocals]
    /\ results = [e \in Execs |-> <<>>]
    /\ inflight = [e \in Execs |-> {}]
    /\ calls = [e \in Execs |-> <<>>]
    /\ requests = [e \in Execs |-> 0]
    /\ retval = [e \in Execs |-> <<>>]
    /\ thrown = [e \in Execs |-> NoError]

ParseOff ==
    /\ parsePc = "off"
    /\ parseRaw = <<>>
    /\ parseQuery = <<>>
    /\ parseSel = <<>>
    /\ parseName = <<>>
    /\ parsePrompt = <<>>

MainOff ==
    /\ keyEnv = ""
    /\ mainPc = "off"
    /\ idx = 0
    /\ mainLog = <<>>
    /\ printed = {}
    /\ mainResult = "pending"

CallOff ==
    /\ callPc = "off"
    /\ callNet = NoNet
    /\ callOut = NoOutcome

Init == InitChain /\ ParseOff /\ MainOff /\ CallOff

\* runPromptChain(q) runs from its entry to the await of stage 1.
StartChain(e, q) ==
    /\ pc[e] = "idle"
    /\ query' = [query EXCEPT ![e] = q]
    /\ results' = [results EXCEPT ![e] = NewResults(e)]
    /\ calls' = [calls EXCEPT ![e] = <<CallOf(1, q, local[e])>>]
    /\ inflight' = [inflight EXCEPT ![e] = {1}]
    /\ requests' = [requests EXCEPT ![e] = @ + 1]
    /\ pc' = [pc EXCEPT ![e] = "await"]
    /\ UNCHANGED <<local, retval, thrown>>

\* runPromptChain(q) is called by a caller of the module.
Start(e) ==
    /\ \E q \in Queries : StartChain(e, q)
    /\ UNCHANGED <<parseVars, mainVars, callVars>>

\* The call in flight settles and runPromptChain runs on from its await: to
\* the next stage's await, to its return, or out of the function by the throw.
Resume(e) ==
    /\ pc[e] = "await"
    /\ \E k \in inflight[e] : \E net \in ServiceOutcomes(k) :
        LET i    == Len(calls[e])
            out  == callTogetherAI(<<e, k>>, net)
            loc  == IF out.ok THEN Assign(local[e], k, out.value) ELSE local[e]
            res  == Push(results[e], out)
            next == NextStage(k, out)
            to   == pcAfter(k, out)
            done == [calls[e] EXCEPT ![i].net = net, ![i].out = out]
        IN  /\ local' = [local EXCEPT ![e] = loc]
            /\ results' = [results EXCEPT ![e] = res]
            /\ pc' = [pc EXCEPT ![e] = to]
            /\ IF to = "await"
               THEN /\ calls' = [calls EXCEPT ![e] = Append(done, CallOf(next, query[e], loc))]
                    /\ inflight' = [inflight EXCEPT ![e] = {next}]
                    /\ requests' = [requests EXCEPT ![e] = @ + 1]
               ELSE /\ calls' = [calls EXCEPT ![e] = done]
                    /\ inflight' = [inflight EXCEPT ![e] = {}]
                    /\ UNCHANGED requests
            /\ retval' = [retval EXCEPT ![e] = IF to = "returned" THEN res ELSE @]
            /\ thrown' = [thrown EXCEPT ![e] =
                            IF to # "failed" THEN @
                            ELSE IF ~out.ok THEN out.error
                            ELSE NewError("TypeError", "Cannot read properties", 0, <<e, 0>>)]
    /\ UNCHANGED <<query, parseVars, mainVars, callVars>>

Next ==
    \/ \E e \in Execs : Start(e)
    \/ \E e \in Execs : Resume(e)

Spec == Init /\ [][Next]_vars

\* The executions when every call issued eventually settles: the await of a
\* settled promise is always resumed.
SpecFair == Spec /\ \A e \in Execs : WF_vars(Resume(e))

\* ------------------------------------- stage 3's output into stage 4's prompt
\* The generated texts a response body may carry, up to MaxLen characters.
BodyChars == {"a", ":", " "}

BodyTexts == UNION {[1..n -> BodyChars] : n \in 0..MaxLen}

InitParse ==
    /\ InitChain
    /\ MainOff
    /\ CallOff
    /\ parsePc = "body"
    /\ parseRaw \in BodyTexts
    /\ parseQuery \in Queries
    /\ parseSel = <<>>
    /\ parseName = <<>>
    /\ parsePrompt = <<>>

\* const selectedCategory = await callTogetherAI(prompt3, 0.3, 150);
Select ==
    /\ parsePc = "body"
    /\ parseSel' = callTogetherAI(<<1, 3>>, CompletionResponse(parseRaw)).value
    /\ parsePc' = "selected"
    /\ UNCHANGED <<parseRaw, parseQuery, parseName, parsePrompt, chainVars, mainVars, callVars>>

\* const categoryName = selectedCategory.split(':')[0].trim();
\* const prompt4 = `... "${categoryName}" category. ... ${query} ...`;
Extract ==
    /\ parsePc = "selected"
    /\ parseName' = categoryName(parseSel)
    /\ parsePrompt' = PromptOf(4, parseQuery, Assign(NoLocals, 3, parseSel))
    /\ parsePc' = "built"
    /\ UNCHANGED <<parseRaw, parseQuery, parseSel, chainVars, mainVars, callVars>>

NextParse ==
    \/ Select
    \/ Extract

SpecParse == InitParse /\ [][NextParse]_vars

\* ------------------------------------------------------- the batch runner
Placeholder == "YOUR_TOGETHER_API_KEY_HERE"

\* const TOGETHER_API_KEY = process.env.TOGETHER_API_KEY || 'YOUR_TOGETHER_API_KEY_HERE';
TOGETHER_API_KEY == IF keyEnv = "" THEN Placeholder ELSE keyEnv

\* A key check against another text than the placeholder.
KeyIsPlaceholderMistyped(key) == key = "YOUR_API_KEY_HERE"

\* if (TOGETHER_API_KEY === 'YOUR_TOGETHER_API_KEY_HERE')
KeyIsPlaceholder(key) == key = Placeholder

testQueries ==
    << <<"I was charged $50 fee yesterday and I don't know why">>,
       <<"I want to open a savings account">>,
       <<"I can't log into my online banking">>,
       <<"Where is my pending transaction from Amazon?">>,
       <<"My debit card is not working at ATMs">> >>

\* setTimeout(resolve, 2000)
DelayMs == 2000

\* The delay taken after every query, the last one too.
NeedsDelayAlways(i) == i < Len(testQueries)

\* if (i < testQueries.length - 1)
NeedsDelay(i) == i < Len(testQueries) - 1

\* Each query in a try of its own: a failed chain counts as done.
ChainSucceededOrCaught(e) == pc[e] \in {"returned", "failed"}

\* const results = await runPromptChain(query) gives a value
ChainSucceeded(e) == pc[e] = "returned"

\* A catch block that throws the error on.
CatchRethrows(err) == "rejected"

\* catch (error) { console.error(...) }: main's promise after the catch block
CatchSettles(err) == "resolved"

MainEvent(ev, i, ms) == [ev |-> ev, idx |-> i, ms |-> ms]

\* await runPromptChain(query) in main: a new execution, here as execution 1
\* in the place of main's previous one, runs to the await of stage 1.
CallChain(e, q) ==
    /\ pc[e] # "await"
    /\ pc' = [pc EXCEPT ![e] = "await"]
    /\ query' = [query EXCEPT ![e] = q]
    /\ local' = [local EXCEPT ![e] = NoLocals]
    /\ results' = [results EXCEPT ![e] = NewResults(e)]
    /\ calls' = [calls EXCEPT ![e] = <<CallOf(1, q, NoLocals)>>]
    /\ inflight' = [inflight EXCEPT ![e] = {1}]
    /\ requests' = [requests EXCEPT ![e] = 1]
    /\ retval' = [retval EXCEPT ![e] = <<>>]
    /\ thrown' = [thrown EXCEPT ![e] = NoError]

\* for (...; i < testQueries.length; ...) from its test, i being the value
\* tested: the next query's chain, or the closing message after the loop.
LoopFrom(i) ==
    /\ idx' = i
    /\ IF i < Len(testQueries)
       THEN /\ CallChain(1, testQueries[i + 1])
            /\ mainPc' = "chain"
            /\ UNCHANGED <<printed, mainResult>>
       ELSE /\ printed' = printed \cup {"ALL TEST CASES COMPLETED SUCCESSFULLY!"}
            /\ mainPc' = "done"
            /\ mainResult' = "resolved"
            /\ UNCHANGED chainVars

\* What LoopFrom(i) adds to the log after the events evs.
LoggedFrom(i, evs) ==
    IF i < Len(testQueries) THEN Append(evs, MainEvent("run", i, 0)) ELSE evs

\* The module is loaded with some value, or none, of the environment variable.
InitMain ==
    /\ InitChain
    /\ ParseOff
    /\ CallOff
    /\ keyEnv \in {"", Placeholder, "together_abc123xyz"}
    /\ mainPc = "entry"
    /\ idx = 0
    /\ mainLog = <<>>
    /\ printed = {}
    /\ mainResult = "pending"

\* main() from its entry: the key check, then the loop's first iteration up
\* to the first await inside runPromptChain.
MainEntry ==
    /\ mainPc = "entry"
    /\ IF KeyIsPlaceholder(TOGETHER_API_KEY)
       THEN /\ printed' = printed \cup {"Please set your Together AI API key!"}
            /\ mainPc' = "done"
            /\ mainResult' = "resolved"
            /\ UNCHANGED <<idx, mainLog, chainVars>>
       ELSE /\ LoopFrom(0)
            /\ mainLog' = LoggedFrom(0, mainLog)
    /\ UNCHANGED <<keyEnv, parseVars, callVars>>

\* runPromptChain returned: the summary, then the delay's await, or i++ and
\* the loop's test.
MainChainReturned ==
    /\ mainPc = "chain"
    /\ ChainSucceeded(1)
    /\ pc[1] # "await"
    /\ IF NeedsDelay(idx)
       THEN /\ mainLog' = mainLog \o <<MainEvent(pc[1], idx, 0),
                                       MainEvent("delay", idx, DelayMs)>>
            /\ mainPc' = "delay"
            /\ UNCHANGED <<idx, printed, mainResult, chainVars>>
       ELSE /\ LoopFrom(idx + 1)
            /\ mainLog' = LoggedFrom(idx + 1, Append(mainLog, MainEvent(pc[1], idx, 0)))
    /\ UNCHANGED <<keyEnv, parseVars, callVars>>

\* The timer fired: i++ and the loop's test.
MainDelayElapsed ==
    /\ mainPc = "delay"
    /\ LoopFrom(idx + 1)
    /\ mainLog' = LoggedFrom(idx + 1, mainLog)
    /\ UNCHANGED <<keyEnv, parseVars, callVars>>

\* runPromptChain rejected: the catch block around the loop.
MainChainFailed ==
    /\ mainPc = "chain"
    /\ ~ChainSucceeded(1)
    /\ pc[1] = "failed"
    /\ mainLog' = Append(mainLog, MainEvent(pc[1], idx, 0))
    /\ printed' = printed \cup {"ERROR"}
    /\ mainPc' = "done"
    /\ mainResult' = CatchSettles(thrown[1])
    /\ UNCHANGED <<idx, keyEnv, chainVars, parseVars, callVars>>

NextMain ==
    \/ MainEntry
    \/ Resume(1)
    \/ MainChainReturned
    \/ MainDelayElapsed
    \/ MainChainFailed

SpecMain == InitMain /\ [][NextMain]_vars

\* ------------------------------------------------- one call of the service
\* The statuses a response may carry.
Statuses == {200, 201, 401, 500}

\* What the network may do with the fetch: reject it, or answer with a status
\* and a body that is empty ("empty"), not JSON ("text"), or JSON of one of
\* the shapes above, a completion carrying any text up to MaxLen characters.
AllNets ==
    {FetchRejected}
    \cup {HttpResponse(st, FALSE, sh, <<>>) : st \in Statuses, sh \in {"empty", "text"}}
    \cup {HttpResponse(st, TRUE, sh, <<>>) :
              st \in Statuses, sh \in {"nochoices", "nullcontent", "error"}}
    \cup {HttpResponse(st, TRUE, "completion", c) : st \in Statuses, c \in BodyTexts}

InitCall ==
    /\ InitChain
    /\ ParseOff
    /\ MainOff
    /\ callPc = "fetching"
    /\ callNet \in AllNets
    /\ callOut = NoOutcome

\* The fetch settles and callTogetherAI runs to its return or its throw.
CallSettles ==
    /\ callPc = "fetching"
    /\ callOut' = callTogetherAI(<<1, 1>>, callNet)
    /\ callPc' = "done"
    /\ UNCHANGED <<callNet, chainVars, parseVars, mainVars>>

NextCall == CallSettles

SpecCall == InitCall /\ [][NextCall]_vars

\* ------------------------------------------------------------------ claims
Last(seq) == seq[Len(seq)]

Terminated(e) == pc[e] \in {"returned", "failed"}

\* The stage at which execution e failed: that of its last call.
FailedStage(e) == Last(calls[e]).stage

\* C1: an execution of runPromptChain either returns a sequence of exactly 5
\* texts or fails; nothing is returned by an execution that has not returned,
\* and a returned sequence never has fewer or more than 5 entries.
C1_FiveOrFail ==
    \A e \in Execs :
        /\ pc[e] = "returned" =>
              /\ Len(retval[e]) = 5
              /\ \A k \in 1..5 : retval[e][k] \in Seq(STRING)
              /\ thrown[e] = NoError
        /\ pc[e] = "failed" => retval[e] = <<>> /\ thrown[e] # NoError
        /\ pc[e] \in {"idle", "await"} => retval[e] = <<>> /\ thrown[e] = NoError

\* One execution returned while the other failed after stages had completed.
C1_Witness ==
    \E e, f \in Execs :
        /\ pc[e] = "returned"
        /\ pc[f] = "failed" /\ FailedStage(f) = 4 /\ Len(results[f]) = 3

\* C2: when the call of stage k fails, the execution fails: it invokes no
\* stage after k, has no call in flight and returns nothing.
C2_FailureAborts ==
    \A e \in Execs : \A i \in DOMAIN calls[e] :
        (calls[e][i].out.settled /\ ~calls[e][i].out.ok) =>
            /\ pc[e] = "failed"
            /\ \A j \in DOMAIN calls[e] : calls[e][j].stage <= calls[e][i].stage
            /\ i = Len(calls[e])
            /\ inflight[e] = {}
            /\ retval[e] = <<>>

\* The call of stage 3 failed.
C2_Witness ==
    \E e \in Execs :
        /\ Len(calls[e]) = 3
        /\ calls[e][3].stage = 3
        /\ calls[e][3].out.settled /\ ~calls[e][3].out.ok
        /\ pc[e] = "failed"

\* C3: the calls of an execution are those of stages 1, 2, ... in that order,
\* the call of stage k > 1 is issued only once the call of stage k-1 has
\* settled with a value, and at most one call of an execution is in flight.
C3_Sequential ==
    \A e \in Execs :
        /\ Cardinality(inflight[e]) <= 1
        /\ inflight[e] = {calls[e][i].stage : i \in {j \in DOMAIN calls[e] : ~calls[e][j].out.settled}}
        /\ \A i \in DOMAIN calls[e] :
              /\ calls[e][i].stage = i
              /\ i > 1 => calls[e][i - 1].out.settled /\ calls[e][i - 1].out.ok

\* Both executions are suspended at a call, one of them at stage 5's.
C3_Witness ==
    \E e, f \in Execs :
        /\ e # f
        /\ inflight[e] = {5} /\ pc[e] = "await"
        /\ inflight[f] = {2} /\ pc[f] = "await"

\* C4: no stage is retried.  Each stage is called at most once in an
\* execution, an execution that returned issued exactly 5 calls, one that
\* failed at stage k exactly k, and every call issued exactly one request.
C4_NoRetry ==
    \A e \in Execs :
        /\ \A i, j \in DOMAIN calls[e] : calls[e][i].stage = calls[e][j].stage => i = j
        /\ pc[e] = "returned" => Len(calls[e]) = 5
        /\ pc[e] = "failed" => Len(calls[e]) = FailedStage(e)
        /\ requests[e] = Len(calls[e])

\* One execution returned after 5 requests, the other failed at stage 2
\* after 2.
C4_Witness ==
    \E e, f \in Execs :
        /\ pc[e] = "returned" /\ requests[e] = 5
        /\ pc[f] = "failed" /\ FailedStage(f) = 2 /\ requests[f] = 2

\* C5: the error an execution fails with is the error raised in the try
\* block of the failing call, the execution's last: the same object (created
\* by that call), not another one in its place; and the failed execution
\* returned no text.
C5_ErrorUnchanged ==
    \A e \in Execs :
        pc[e] = "failed" =>
            LET c == Last(calls[e])
            IN  /\ c.out.settled /\ ~c.out.ok
                /\ thrown[e] = TryBody(<<e, c.stage>>, c.net).error
                /\ thrown[e].origin = <<e, c.stage>>
                /\ thrown[e].name \in {"TypeError", "SyntaxError", "Error"}
                /\ retval[e] = <<>>
                /\ Len(results[e]) = c.stage - 1

\* The executions failed with errors of different kinds: a rejected fetch at
\* stage 1, an error status at stage 4.
C5_Witness ==
    \E e, f \in Execs :
        /\ pc[e] = "failed" /\ FailedStage(e) = 1 /\ thrown[e].message = "fetch failed"
        /\ pc[f] = "failed" /\ FailedStage(f) = 4 /\ thrown[f].status = 500

\* C6: a returned result is <<intent, categories, selectedCategory, details,
\* response>>: its k-th element is the text the call of stage k returned, as
\* returned.
C6_ResultIsStageOutputs ==
    \A e \in Execs :
        pc[e] = "returned" =>
            /\ retval[e] = [k \in 1..5 |-> calls[e][k].out.value]
            /\ \A k \in 1..5 : calls[e][k].stage = k /\ calls[e][k].out.ok
            /\ retval[e] = <<local[e].intent, local[e].categories,
                             local[e].selectedCategory, local[e].details,
                             local[e].response>>

\* A returned result whose selectedCategory names no category.
C6_Witness ==
    \E e \in Execs :
        /\ pc[e] = "returned"
        /\ retval[e] = << <<"j">>, <<"c">>, <<":", "a">>, <<"d">>, <<"s", " ", "r">> >>

\* The text of s before its first colon; all of s when it has none.
BeforeFirstColon(s) ==
    LET colons == {i \in 1..Len(s) : s[i] = ":"}
    IN  IF colons = {} THEN s
        ELSE SubSeq(s, 1, (CHOOSE i \in colons : \A j \in colons : i <= j) - 1)

\* t is u without its leading and trailing whitespace.
IsTrimOf(t, u) ==
    \E i \in 1..(Len(u) + 1) : \E j \in 0..Len(u) :
        /\ t = SubSeq(u, i, j)
        /\ \A k \in 1..Len(u) : (k < i \/ k > j) => u[k] \in WhiteSpace
        /\ i <= j => u[i] \notin WhiteSpace /\ u[j] \notin WhiteSpace

\* A chunk of a prompt's template, as opposed to a character of a text.
IsChunk(x) == x \notin BodyChars \cup WhiteSpace \cup {QueryLetters[i] : i \in 1..4}

\* C7: the category name is the text of selectedCategory before its first
\* colon, trimmed, and all of selectedCategory, trimmed, when it has no
\* colon; it is what stage 4's prompt quotes as the category.
C7_CategoryName ==
    parsePc = "built" =>
        /\ IsTrimOf(parseName, BeforeFirstColon(parseSel))
        /\ IsChunk(parsePrompt[1])
        /\ SubSeq(parsePrompt, 2, Len(parseName) + 1) = parseName
        /\ IsChunk(parsePrompt[Len(parseName) + 2])

\* "a :a" gives "a": the text before the colon lost its trailing space.
C7_Witness ==
    /\ parsePc = "built"
    /\ parseSel = <<"a", " ", ":", "a">>
    /\ parseName = <<"a">>

\* C8: whatever the text of stage 3's output, stages 4 and 5 are invoked after
\* it (stage 5 once stage 4's call returned), and an execution fails only
\* with the error of a failed call, never with one of its own.
C8_ParseSilent ==
    \A e \in Execs :
        /\ pc[e] = "failed" =>
              /\ ~Last(calls[e]).out.ok
              /\ thrown[e].origin = <<e, FailedStage(e)>>
        /\ (Len(calls[e]) >= 3 /\ calls[e][3].out.ok) =>
              /\ Len(calls[e]) >= 4
              /\ calls[e][4].stage = 4
              /\ calls[e][4].out.ok => Len(calls[e]) = 5 /\ calls[e][5].stage = 5

\* One execution returned with a selectedCategory without colon, the other
\* reached stage 5 with one that has nothing before its colon.
C8_Witness ==
    \E e, f \in Execs :
        /\ pc[e] = "returned" /\ local[e].selectedCategory = <<"b">>
        /\ Len(calls[f]) = 5 /\ local[f].selectedCategory = <<":", "a">>

\* C9: stage 2's prompt contains intent; stage 3's intent, the query and
\* categories; stage 4's the query and the category name derived from
\* selectedCategory; stage 5's selectedCategory, intent, details and the
\* query: each as the earlier call of the same execution returned it.
C9_PromptsEmbedInputs ==
    \A e \in Execs : \A i \in DOMAIN calls[e] :
        LET p == calls[e][i].prompt
            q == query[e]
            output(k) == calls[e][k].out.value
        IN  /\ i = 2 => Contains(p, output(1))
            /\ i = 3 => Contains(p, output(1)) /\ Contains(p, q) /\ Contains(p, output(2))
            /\ i = 4 => Contains(p, q) /\ Contains(p, Trim(BeforeFirstColon(output(3))))
            /\ i = 5 => /\ Contains(p, output(3))
                        /\ Contains(p, output(1))
                        /\ Contains(p, output(4))
                        /\ Contains(p, q)

\* An execution sent stage 5's prompt after a category with its rationale.
C9_Witness ==
    \E e \in Execs :
        /\ Len(calls[e]) = 5
        /\ local[e].selectedCategory = <<"a", " ", ":", "b">>
        /\ local[e].details = <<"d">>

\* The service answered equal requests equally, in all calls settled so far.
ServiceDeterministic ==
    \A e, f \in Execs : \A i \in DOMAIN calls[e] : \A j \in DOMAIN calls[f] :
        ( /\ calls[e][i].out.settled /\ calls[f][j].out.settled
          /\ calls[e][i].prompt = calls[f][j].prompt
          /\ calls[e][i].temperature = calls[f][j].temperature
          /\ calls[e][i].maxTokens = calls[f][j].maxTokens )
        => calls[e][i].net = calls[f][j].net

PromptsSent(e) == [i \in DOMAIN calls[e] |-> calls[e][i].prompt]

\* C10: when the service answers equal requests equally, two executions with
\* the same query end alike (both return, or both fail), return the same
\* result and send the same sequence of prompts.
C10_Deterministic ==
    \A e, f \in Execs :
        ( /\ Terminated(e) /\ Terminated(f)
          /\ query[e] = query[f]
          /\ ServiceDeterministic )
        => /\ pc[e] = pc[f]
           /\ retval[e] = retval[f]
           /\ PromptsSent(e) = PromptsSent(f)

\* Two executions with the same query both returned, the service having
\* answered equal requests equally.
C10_Witness ==
    \E e, f \in Execs :
        /\ e # f
        /\ pc[e] = "returned" /\ pc[f] = "returned"
        /\ query[e] = query[f]
        /\ ServiceDeterministic
        /\ local[e].intent = <<"j">>

\* The texts execution e's own calls have returned so far, in stage order.
OwnOutputs(e) ==
    LET settled == {i \in DOMAIN calls[e] : calls[e][i].out.settled /\ calls[e][i].out.ok}
    IN  [i \in 1..Cardinality(settled) |-> calls[e][i].out.value]

\* The consts of an execution whose first n stages returned the texts outs.
LocalsFrom(outs, n) ==
    [intent           |-> IF n >= 1 THEN outs[1] ELSE <<>>,
     categories       |-> IF n >= 2 THEN outs[2] ELSE <<>>,
     selectedCategory |-> IF n >= 3 THEN outs[3] ELSE <<>>,
     details          |-> IF n >= 4 THEN outs[4] ELSE <<>>,
     response         |-> IF n >= 5 THEN outs[5] ELSE <<>>]

\* C11: the executions share no state.  At every point of every interleaving
\* of two executions, each prompt an execution sent is the prompt of its
\* stage for that execution's own query and the texts its own earlier calls
\* returned, and its accumulator, its consts and its result hold its own
\* calls' texts only.
C11_NoSharedState ==
    \A e \in Execs :
        /\ \A i \in DOMAIN calls[e] :
              calls[e][i].prompt = PromptOf(i, query[e], LocalsFrom(OwnOutputs(e), i - 1))
        /\ results[e] = OwnOutputs(e)
        /\ local[e] = LocalsFrom(OwnOutputs(e), Len(OwnOutputs(e)))
        /\ pc[e] = "returned" => retval[e] = OwnOutputs(e)

\* Two executions with different queries and different intents, interleaved:
\* the first awaits stage 4 while the second awaits stage 3.
C11_Witness ==
    /\ pc[1] = "await" /\ inflight[1] = {4}
    /\ pc[2] = "await" /\ inflight[2] = {3}
    /\ query[1] # query[2]
    /\ local[1].intent # local[2].intent
    /\ local[1].selectedCategory = <<"b">>

\* The positions of the events ev in main's log.
Events(ev) == {n \in DOMAIN mainLog : mainLog[n].ev = ev}

\* C12: main calls runPromptChain for the queries of the list in list order,
\* each once; the chain of a query after the first is called right after the
\* delay that followed the previous query's return; a delay of 2000 ms is
\* set right after the return of every query but the last, and nowhere else.
C12_InOrderWithDelays ==
    /\ \A n \in Events("run") :
          /\ mainLog[n].idx = Cardinality({m \in Events("run") : m < n})
          /\ mainLog[n].idx < Len(testQueries)
          /\ mainLog[n].idx > 0 =>
                /\ n > 2
                /\ mainLog[n - 1] = MainEvent("delay", mainLog[n].idx - 1, 2000)
                /\ mainLog[n - 2] = MainEvent("returned", mainLog[n].idx - 1, 0)
    /\ \A n \in Events("delay") :
          /\ n > 1
          /\ mainLog[n - 1] = MainEvent("returned", mainLog[n].idx, 0)
          /\ mainLog[n].ms = 2000
          /\ mainLog[n].idx # Len(testQueries) - 1
    /\ \A n \in Events("returned") :
          mainLog[n].idx # Len(testQueries) - 1 =>
              n < Len(mainLog) /\ mainLog[n + 1].ev = "delay"
    /\ mainPc = "chain" =>
          /\ Last(mainLog) = MainEvent("run", idx, 0)
          /\ query[1] = testQueries[idx + 1]

\* All 5 queries ran: 5 chains, 4 delays, the last query's return the last
\* event.
C12_Witness ==
    /\ mainPc = "done"
    /\ Cardinality(Events("run")) = 5
    /\ Cardinality(Events("delay")) = 4
    /\ Last(mainLog) = MainEvent("returned", 4, 0)

\* C13: once runPromptChain has failed for a query, main does nothing more
\* with the list: the failure is the last event, so no chain is called and no
\* delay is set after it, and main is over.
C13_FailureStopsBatch ==
    \A n \in Events("failed") :
        /\ n = Len(mainLog)
        /\ mainPc = "done"
        /\ idx = mainLog[n].idx
        /\ pc[1] = "failed"

\* The third query's chain failed at its stage 2 after two queries went well.
C13_Witness ==
    /\ mainPc = "done"
    /\ mainLog # <<>>
    /\ Last(mainLog) = MainEvent("failed", 2, 0)
    /\ Cardinality(Events("returned")) = 2
    /\ FailedStage(1) = 2

\* C18: main's promise is never rejected, main being over means it resolved,
\* and the closing success message is printed exactly when runPromptChain has
\* returned for every query of the list.
C18_MainNeverThrows ==
    /\ mainResult # "rejected"
    /\ mainPc = "done" <=> mainResult = "resolved"
    /\ "ALL TEST CASES COMPLETED SUCCESSFULLY!" \in printed
          <=> {mainLog[n].idx : n \in Events("returned")} = 0..(Len(testQueries) - 1)
    /\ "ERROR" \in printed <=> Events("failed") # {}

\* main is over after the failure of the fifth query's chain: it resolved,
\* with the error printed and no success message.
C18_Witness ==
    /\ mainPc = "done"
    /\ mainResult = "resolved"
    /\ mainLog # <<>>
    /\ Last(mainLog) = MainEvent("failed", 4, 0)
    /\ printed = {"ERROR"}

\* C19: with the placeholder as API key (the environment variable unset,
\* empty, or the placeholder itself) main calls no chain and no call of the
\* Completion Service is issued; main ends after the message about the key.
C19_PlaceholderKeyStops ==
    TOGETHER_API_KEY = "YOUR_TOGETHER_API_KEY_HERE" =>
        /\ mainLog = <<>>
        /\ \A e \in Execs : pc[e] = "idle" /\ calls[e] = <<>> /\ requests[e] = 0
        /\ mainPc \in {"entry", "done"}
        /\ mainPc = "done" =>
              mainResult = "resolved" /\ printed = {"Please set your Together AI API key!"}

\* main is over without the environment variable set.
C19_Witness ==
    /\ keyEnv = ""
    /\ mainPc = "done"
    /\ mainLog = <<>>

\* C14: callTogetherAI returns exactly when the fetch resolved to a response
\* with a success status whose body is JSON carrying a completion, and then
\* returns that completion's text without its leading and trailing
\* whitespace; in every other case (rejected fetch, other status, empty body,
\* body that is no JSON or carries no completion) it fails with an error.
C14_TrimmedTextOrFailure ==
    callPc = "done" =>
        LET wellFormed ==
                /\ callNet.fetch = "resolved"
                /\ callNet.status >= 200 /\ callNet.status <= 299
                /\ callNet.json
                /\ callNet.shape = "completion"
        IN  /\ callOut.settled
            /\ wellFormed =>
                  /\ callOut.ok
                  /\ IsTrimOf(callOut.value, callNet.content)
                  /\ callOut.error = NoError
            /\ ~wellFormed =>
                  /\ ~callOut.ok
                  /\ callOut.value = <<>>
                  /\ callOut.error.name \in {"TypeError", "SyntaxError", "Error"}

\* A response with status 500 whose body would read as a completion: the
\* call failed with the API error.
C14_Witness ==
    /\ callPc = "done"
    /\ callNet = HttpResponse(500, TRUE, "completion", <<"a", " ">>)
    /\ ~callOut.ok
    /\ callOut.error.status = 500

\* The number of stages of execution e whose call has returned a text.
Completed(e) == Len(OwnOutputs(e))

\* C15: after k stages of an execution have completed its accumulator holds
\* the texts of stages 1..k, in stage order, and nothing else; a step leaves
\* the accumulator as it is or, when it completes a stage, appends that
\* stage's text: entries already written are never changed or removed.
C15_AccumulatorGrows ==
    /\ [](\A e \in Execs :
            /\ Len(results[e]) = Completed(e)
            /\ \A k \in 1..Completed(e) :
                  calls[e][k].stage = k /\ results[e][k] = calls[e][k].out.value)
    /\ [][\A e \in Execs :
            /\ SubSeq(results'[e], 1, Len(results[e])) = results[e]
            /\ IF Completed(e)' = Completed(e) + 1
               THEN results'[e] = Append(results[e], calls'[e][Completed(e) + 1].out.value)
               ELSE results'[e] = results[e]]_vars

\* An execution with three stages completed, awaiting the fourth.
C15_Witness ==
    \E e \in Execs :
        /\ pc[e] = "await" /\ inflight[e] = {4}
        /\ Len(results[e]) = 3
        /\ results[e][3] = <<"a", ":", "b", ":", "a">>

\* The text stage k of execution e returned.
OutputOf(e, k) == calls[e][k].out.value

\* C16: a prompt is determined by its stage's declared inputs.  Two executions
\* with the same query send the same stage-1 prompt; with the same intent the
\* same stage-2 prompt, whatever their queries; with the same query and
\* selectedCategory texts that agree, trimmed, before their first colon the
\* same stage-4 prompt, whatever follows the colon and whatever their
\* intents.
C16_PromptsOfDeclaredInputs ==
    \A e, f \in Execs :
        /\ (Len(calls[e]) >= 1 /\ Len(calls[f]) >= 1 /\ query[e] = query[f])
              => calls[e][1].prompt = calls[f][1].prompt
        /\ (Len(calls[e]) >= 2 /\ Len(calls[f]) >= 2 /\ OutputOf(e, 1) = OutputOf(f, 1))
              => calls[e][2].prompt = calls[f][2].prompt
        /\ ( /\ Len(calls[e]) >= 4 /\ Len(calls[f]) >= 4
             /\ query[e] = query[f]
             /\ Trim(BeforeFirstColon(OutputOf(e, 3))) = Trim(BeforeFirstColon(OutputOf(f, 3))) )
              => calls[e][4].prompt = calls[f][4].prompt

\* Two executions with the same query whose selectedCategory texts, "a :b"
\* and "a:b:a", differ after the first colon, and whose intents differ.
C16_Witness ==
    /\ Len(calls[1]) >= 4 /\ Len(calls[2]) >= 4
    /\ query[1] = query[2]
    /\ OutputOf(1, 3) = <<"a", " ", ":", "b">>
    /\ OutputOf(2, 3) = <<"a", ":", "b", ":", "a">>
    /\ OutputOf(1, 1) # OutputOf(2, 1)
    /\ calls[1][4].prompt = calls[2][4].prompt

\* Execution e's call in flight is still in flight after the step.
StaysInFlight(e) ==
    /\ pc[e] = "await"
    /\ Len(calls'[e]) >= Len(calls[e])
    /\ ~calls'[e][Len(calls[e])].out.settled

\* C17: when every call issued eventually settles, an execution suspended at
\* a call eventually returns or fails, and it never issues more than 5 calls.
\* There is no timeout: an execution suspended at the call of stage k has
\* neither result nor error, and every step that does not settle that call
\* leaves the execution where it is, with no further call issued.
C17_TerminatesOrBlocks ==
    /\ \A e \in Execs : (pc[e] = "await") ~> Terminated(e)
    /\ [](\A e \in Execs :
            /\ Len(calls[e]) <= 5
            /\ pc[e] = "await" =>
                  /\ inflight[e] = {Last(calls[e]).stage}
                  /\ ~Last(calls[e]).out.settled
                  /\ retval[e] = <<>> /\ thrown[e] = NoError)
    /\ [][\A e \in Execs :
            StaysInFlight(e) =>
                /\ pc'[e] = "await"
                /\ calls'[e] = calls[e]
                /\ inflight'[e] = inflight[e]
                /\ results'[e] = results[e]
                /\ retval'[e] = <<>> /\ thrown'[e] = NoError]_vars

\* One execution has returned after its 5 calls while the other is still
\* suspended at the call of stage 2.
C17_Witness ==
    \E e, f \in Execs :
        /\ pc[e] = "returned" /\ Len(calls[e]) = 5
        /\ pc[f] = "await" /\ inflight[f] = {2}

====
